---- MODULE Spec2Model ----
(***************************************************************************)
(* A model of hpctlib.editors.lib: the parser cursor (Feed), the default   *)
(* line grammar (LineParser), the node model (LeafNode, ContainerNode,     *)
(* JoinNode) and the matcher/query engine (Matcher, ContainerNode.find).   *)
(*                                                                         *)
(* Text is a sequence of one-character strings.  Nodes of the node model   *)
(* are identities (Python object identity); a container's state is its     *)
(* ordered list of children.                                               *)
(***************************************************************************)
EXTENDS Integers, Sequences, FiniteSets, TLC

VARIABLES
    text,       \* the input text handed to the parser (never changes)
    feed,       \* Feed: [f |-> unread rest of the source, buf |-> line buffer]
    line,       \* LineParser.line
    root,       \* the LinesNode being built by LineParser.parse(): its children
    rendered,   \* the value returned by root.render()
    pc,         \* position of the load/parse/render run
    children,   \* ContainerNode.children, for every container of the node model
    last        \* the last node-model call: its arguments and what it returned

vars == <<text, feed, line, root, rendered, pc, children, last>>

parseVars == <<text, feed, line, root, rendered, pc>>
treeVars == <<children, last>>

----------------------------------------------------------------------------
(* Bounds of the model.                                                    *)

MaxLen == 6
MaxSlots == 3
MaxRenderSlots == 4
MaxFindSlots == 2
MaxCount == 2
MaxDepth == 2
MaxParseLen == 3

----------------------------------------------------------------------------
(* Text.                                                                   *)

\* The characters input texts are drawn from: a comment mark, two kinds of
\* whitespace (one of them the line terminator) and an ordinary character.
Chars == {"#", " ", "\n", "a"}

RECURSIVE TextsOfLen(_)
TextsOfLen(n) ==
    IF n = 0 THEN {<<>>}
    ELSE {<<c>> \o t : c \in Chars, t \in TextsOfLen(n - 1)}

Texts == UNION {TextsOfLen(n) : n \in 0..MaxLen}

\* Python's None, and parser.py's EOF object: values no text is equal to.
None == <<"<None>">>
EOF == <<"<EOF>">>

\* str.index(c) as a position from 1, 0 when c does not occur (ValueError).
RECURSIVE IndexFrom(_, _, _)
IndexFrom(s, c, i) ==
    IF i > Len(s) THEN 0
    ELSE IF s[i] = c THEN i
    ELSE IndexFrom(s, c, i + 1)

StrIndex(s, c) == IndexFrom(s, c, 1)

IsSpace(c) == c \in {" ", "\n"}

RECURSIVE LStrip(_)
LStrip(s) ==
    IF s = <<>> THEN s
    ELSE IF IsSpace(Head(s)) THEN LStrip(Tail(s))
    ELSE s

RECURSIVE RStrip(_)
RStrip(s) ==
    IF s = <<>> THEN s
    ELSE IF IsSpace(s[Len(s)]) THEN RStrip(SubSeq(s, 1, Len(s) - 1))
    ELSE s

\* str.strip()
Strip(s) == RStrip(LStrip(s))

\* str.startswith(c) for a one-character c
StartsWith(s, c) == Len(s) > 0 /\ s[1] = c

\* separator.join(parts)
RECURSIVE Join(_, _)
Join(sep, parts) ==
    IF parts = <<>> THEN <<>>
    ELSE IF Len(parts) = 1 THEN parts[1]
    ELSE parts[1] \o sep \o Join(sep, Tail(parts))

----------------------------------------------------------------------------
(* Feed (base/parser.py).                                                  *)

\* io.StringIO.readline(): the unread text up to and including the first
\* newline, or all of it.
ReadLine(f) ==
    LET i == StrIndex(f, "\n")
    IN IF i > 0 THEN SubSeq(f, 1, i) ELSE f

FeedInit(f) == [f |-> f, buf |-> None]

\* `not self.buf`
BufFalsy(buf) == buf = None \/ buf = <<>>

preload(fd) ==
    IF BufFalsy(fd.buf)
    THEN LET l == ReadLine(fd.f)
         IN [f |-> SubSeq(fd.f, Len(l) + 1, Len(fd.f)), buf |-> l]
    ELSE fd

\* A popline that drops the line terminator before testing for end of input
popline_without_terminator(fd) ==
    LET p == preload(fd)
        i == StrIndex(p.buf, "\n")
        ln == IF i > 0 THEN SubSeq(p.buf, 1, i - 1) ELSE p.buf
        rest == IF i > 0 THEN SubSeq(p.buf, i + 1, Len(p.buf)) ELSE <<>>
    IN [fd |-> [p EXCEPT !.buf = rest],
        ret |-> IF ln = <<>> THEN EOF ELSE ln]

\* A popline that returns the next line and leaves it in the buffer
popline_without_consuming(fd) ==
    [fd |-> preload(fd),
     ret |-> IF popline_without_terminator(fd).ret = EOF THEN EOF
             ELSE ReadLine(preload(fd).buf)]

\* popline(): [fd |-> the feed afterwards, ret |-> the value returned]
popline(fd) ==
    LET p == preload(fd)
        i == StrIndex(p.buf, "\n")
        ln == IF i > 0 THEN SubSeq(p.buf, 1, i) ELSE p.buf
        rest == IF i > 0 THEN SubSeq(p.buf, i + 1, Len(p.buf)) ELSE <<>>
    IN [fd |-> [p EXCEPT !.buf = rest],
        ret |-> IF ln = <<>> THEN EOF ELSE ln]

----------------------------------------------------------------------------
(* Feed, character by character (base/parser.py).                          *)

\* io.StringIO.read(1): [f |-> the source afterwards, ch |-> what was read]
Read1(f) ==
    IF f = <<>> THEN [f |-> f, ch |-> <<>>]
    ELSE [f |-> Tail(f), ch |-> <<Head(f)>>]

\* peekchar() on the feed p that preload() left.  A character, like every
\* Python string, is a text: the empty text is Python's "".
peekchar_preloaded(p) ==
    IF ~BufFalsy(p.buf) THEN [fd |-> p, ret |-> <<p.buf[1]>>]
    ELSE [fd |-> [f |-> Read1(p.f).f, buf |-> Read1(p.f).ch],
          ret |-> Read1(p.f).ch]

\* peekchar(): [fd |-> the feed afterwards, ret |-> the value returned]
peekchar(fd) == peekchar_preloaded(preload(fd))

\* A popchar that returns the next character and leaves it in the buffer
popchar_without_consuming(fd) ==
    IF BufFalsy(preload(fd).buf) THEN [fd |-> preload(fd), ret |-> EOF]
    ELSE [fd |-> preload(fd), ret |-> <<preload(fd).buf[1]>>]

\* popchar() on the feed p that preload() left: buf[0] of an empty buffer
\* raises IndexError and the `except` returns EOF
popchar_preloaded(p) ==
    IF BufFalsy(p.buf) THEN [fd |-> p, ret |-> EOF]
    ELSE [fd |-> [p EXCEPT !.buf = Tail(p.buf)], ret |-> <<p.buf[1]>>]

\* popchar(): [fd |-> the feed afterwards, ret |-> the value returned]
popchar(fd) == popchar_preloaded(preload(fd))

----------------------------------------------------------------------------
(* LineParser (line/parser.py) and the line nodes (line/node.py).          *)

is_comment_line(l) == StartsWith(l, "#")

\* nextline(): [fd, line]
nextline(fd) ==
    LET r == popline(fd) IN [fd |-> r.fd, line |-> r.ret]

\* nextstripline that keeps the line as popped
nextstripline_unstripped(fd) == nextline(fd)

\* nextstripline(): [fd, line]
nextstripline(fd) ==
    LET r == nextline(fd)
    IN IF r.line # EOF THEN [r EXCEPT !.line = Strip(r.line)] ELSE r

\* LineParser.next()
LineParser_next(fd) == nextstripline(fd)

LeafNode(type, value) == [type |-> type, value |-> value]

\* render() of the leaves the line grammar creates
LineLeaf_render(n) ==
    IF n.type = "BlankLineNode" THEN <<>> ELSE n.value

\* LinesNode.render(): NewlineJoinNode, separator "\n"
LinesNode_render(kids) ==
    Join(<<"\n">>, [i \in 1..Len(kids) |-> LineLeaf_render(kids[i])])

----------------------------------------------------------------------------
(* Properties of the default line grammar.                                 *)

\* The lines of a text, each with its terminator (the last possibly without)
RECURSIVE SplitLines(_)
SplitLines(t) ==
    IF t = <<>> THEN <<>>
    ELSE LET i == StrIndex(t, "\n")
         IN IF i = 0 THEN <<t>>
            ELSE <<SubSeq(t, 1, i)>> \o SplitLines(SubSeq(t, i + 1, Len(t)))

\* The leaf the grammar is to produce for one input line
LeafFor(l) ==
    LET v == Strip(l)
    IN [type |-> IF Len(v) > 0 /\ v[1] = "#" THEN "CommentLineNode"
                 ELSE IF v = <<>> THEN "BlankLineNode"
                 ELSE "LineNode",
        value |-> v]

\* C1: round trip: render() of the unmodified tree that parse() returned is
\* the input text, character for character, final line terminator and
\* leading and trailing whitespace of every line included.
C1_RoundTrip == pc = "rendered" => rendered = text

\* C2: parse() returns exactly one child per input line, in input order: a
\* comment leaf when the stripped line starts with '#', a blank leaf when it
\* is empty, a generic-line leaf otherwise, each holding the stripped line.
C2_OneChildPerLine ==
    pc \in {"parsed", "rendered"} =>
        LET ls == SplitLines(text)
        IN /\ Len(root) = Len(ls)
           /\ \A i \in 1..Len(ls) : root[i] = LeafFor(ls[i])

\* Scenario A in small: "#\n\n a\n" gives comment "#", blank "", line "a"
C2_Witness ==
    /\ pc = "parsed"
    /\ text = <<"#", "\n", "\n", " ", "a", "\n">>
    /\ root = << [type |-> "CommentLineNode", value |-> <<"#">>],
                 [type |-> "BlankLineNode", value |-> <<>>],
                 [type |-> "LineNode", value |-> <<"a">>] >>

----------------------------------------------------------------------------
(* The node model (base/node.py).  Nodes are identities; the kind and the  *)
(* value of a node are fixed when it is constructed.                       *)

Containers == {"rec", "opts"}
Leaves == {"p", "o1", "o2"}
Nodes == Containers \cup Leaves

\* type(node).__name__
NodeType(n) ==
    CASE n = "rec" -> "RecordNode"
      [] n = "opts" -> "CommaJoinNode"
      [] OTHER -> "StringNode"

\* LeafNode.value
Value(n) ==
    CASE n = "p" -> <<"/", "d", "a", "t", "a">>
      [] n = "o1" -> <<"r", "w">>
      [] n = "o2" -> <<"s", "y", "n", "c">>

\* The declared class attribute `separator` of a join node (None: not declared)
Separator(n) ==
    CASE NodeType(n) = "CommaJoinNode" -> <<",">>
      [] NodeType(n) = "NewlineJoinNode" -> <<"\n">>
      [] OTHER -> None

\* list.index(x) as a position from 1; 0 stands for ValueError
ListIndex(l, x) == IndexFrom(l, x, 1)

\* list.insert(k, x) for 0 <= k <= len(l): x is placed after the first k items
ListInsert(l, k, x) == SubSeq(l, 1, k) \o <<x>> \o SubSeq(l, k + 1, Len(l))

\* ContainerNode.add(node): the child list afterwards
add(l, node) == Append(l, node)

\* ContainerNode.addn(nodes)
addn(l, nodes) == l \o nodes

\* ContainerNode.has(node)
has(l, node) == ListIndex(l, node) # 0

\* ContainerNode.index(node): Python's position from 0, -1 when absent
index(l, node) ==
    LET i == ListIndex(l, node) IN IF i = 0 THEN -1 ELSE i - 1

\* insert_before that appends whenever relnode is absent, whatever `append` says
insert_before_always_append(l, node, relnode, append) ==
    LET i == ListIndex(l, relnode)
    IN IF i # 0 THEN ListInsert(l, i - 1, node)
       ELSE Append(l, node)

\* ContainerNode.insert_before(node, relnode, append): the child list afterwards
insert_before(l, node, relnode, append) ==
    LET i == ListIndex(l, relnode)
    IN IF i # 0 THEN ListInsert(l, i - 1, node)
       ELSE IF append THEN Append(l, node)
       ELSE l

\* insert_after that inserts at relnode's own position
insert_after_off_by_one(l, node, relnode, append) ==
    LET i == ListIndex(l, relnode)
    IN IF i # 0 THEN ListInsert(l, i - 1, node)
       ELSE IF append THEN Append(l, node)
       ELSE l

\* ContainerNode.insert_after(node, relnode, append)
insert_after(l, node, relnode, append) ==
    LET i == ListIndex(l, relnode)
    IN IF i # 0 THEN ListInsert(l, i, node)
       ELSE IF append THEN Append(l, node)
       ELSE l

\* remove that drops every occurrence
remove_every_occurrence(l, node) == SelectSeq(l, LAMBDA x : x # node)

\* ContainerNode.remove(node): list.remove drops the first occurrence
remove(l, node) ==
    LET i == ListIndex(l, node)
    IN IF i # 0 THEN SubSeq(l, 1, i - 1) \o SubSeq(l, i + 1, Len(l))
       ELSE l

\* upsert that appends newnode even when node was found and replaced
upsert_also_appends(l, node, newnode) ==
    LET i == ListIndex(l, node)
    IN IF i # 0 THEN Append([l EXCEPT ![i] = newnode], newnode)
       ELSE Append(l, newnode)

\* ContainerNode.upsert(node, newnode)
upsert(l, node, newnode) ==
    LET i == ListIndex(l, node)
    IN IF i # 0 THEN [l EXCEPT ![i] = newnode]
       ELSE Append(l, newnode)

\* The number of child slots of the whole structure
RECURSIVE SumLen(_, _)
SumLen(ch, S) ==
    IF S = {} THEN 0
    ELSE LET c == CHOOSE x \in S : TRUE
         IN Len(ch[c]) + SumLen(ch, S \ {c})

TotalSlots(ch) == SumLen(ch, Containers)

ParseIdle ==
    /\ text = <<>> /\ feed = FeedInit(<<>>) /\ line = None
    /\ root = <<>> /\ rendered = None /\ pc = "build"

TreeIdle ==
    /\ children = [c \in Containers |-> <<>>]
    /\ last = [op |-> "none"]

InitParse ==
    /\ text \in Texts
    /\ feed = FeedInit(text)
    /\ line = None
    /\ root = <<>>
    /\ rendered = None
    /\ pc = "new"
    /\ TreeIdle

\* Parser.__init__(f, prime=True): self.next()
Construct ==
    /\ pc = "new"
    /\ LET r == LineParser_next(feed)
       IN /\ feed' = r.fd
          /\ line' = r.line
    /\ pc' = "parse"
    /\ UNCHANGED <<text, root, rendered, children, last>>

\* One iteration of parse()'s loop, by branch.
ParseComment ==
    /\ pc = "parse" /\ line # EOF
    /\ is_comment_line(line)
    /\ LET r == LineParser_next(feed)
       IN /\ feed' = r.fd
          /\ line' = r.line
    /\ root' = Append(root, LeafNode("CommentLineNode", line))
    /\ UNCHANGED <<text, rendered, pc, children, last>>

ParseBlank ==
    /\ pc = "parse" /\ line # EOF
    /\ ~is_comment_line(line)
    /\ line = <<>>
    /\ LET r == LineParser_next(feed)
       IN /\ feed' = r.fd
          /\ line' = r.line
    /\ root' = Append(root, LeafNode("BlankLineNode", line))
    /\ UNCHANGED <<text, rendered, pc, children, last>>

ParseLine ==
    /\ pc = "parse" /\ line # EOF
    /\ ~is_comment_line(line)
    /\ line # <<>>
    /\ root' = Append(root, LeafNode("LineNode", line))
    /\ LET r == LineParser_next(feed)
       IN /\ feed' = r.fd
          /\ line' = r.line
    /\ UNCHANGED <<text, rendered, pc, children, last>>

\* parse() leaves its loop and returns root
ParseReturn ==
    /\ pc = "parse" /\ line = EOF
    /\ pc' = "parsed"
    /\ UNCHANGED <<text, feed, line, root, rendered, children, last>>

\* Editor.render(): self.root.render()
Render ==
    /\ pc = "parsed"
    /\ rendered' = LinesNode_render(root)
    /\ pc' = "rendered"
    /\ UNCHANGED <<text, feed, line, root, children, last>>

NextParse ==
    \/ Construct
    \/ ParseComment
    \/ ParseBlank
    \/ ParseLine
    \/ ParseReturn
    \/ Render

SpecParse == InitParse /\ [][NextParse]_vars

(* A parse from the editor's side (base/editor.py): Editor.parse(f) makes  *)
(* the parser over the text with get_parser(f) and calls its parse().  A   *)
(* parser that is called runs on: a step that is possible is taken.        *)

InitEditor ==
    /\ text = <<>>
    /\ feed = FeedInit(<<>>)
    /\ line = None
    /\ root = <<>>
    /\ rendered = None
    /\ pc = "editor"
    /\ TreeIdle

\* get_parser(f): LineParser.__init__ sets line to None, Parser.__init__
\* makes the Feed over the text and primes with self.next()
Primed(t, r) ==
    /\ text' = t
    /\ feed' = r.fd
    /\ line' = r.line
    /\ pc' = "parse"
    /\ UNCHANGED <<root, rendered, children, last>>

GetParser ==
    /\ pc = "editor"
    /\ \E t \in UNION {TextsOfLen(n) : n \in 0..MaxParseLen} :
          Primed(t, LineParser_next(FeedInit(t)))

NextTerminate ==
    \/ GetParser
    \/ ParseComment
    \/ ParseBlank
    \/ ParseLine
    \/ ParseReturn

SpecTerminate == InitEditor /\ [][NextTerminate]_vars /\ WF_vars(NextTerminate)

----------------------------------------------------------------------------
(* Reading a feed line by line: a Feed is made over a text and popline()   *)
(* is called again and again.  `last.out` keeps the values returned, in    *)
(* order; the calls go on until two more than the text has characters.     *)

InitFeed ==
    /\ text \in Texts
    /\ feed = FeedInit(text)
    /\ line = None
    /\ root = <<>>
    /\ rendered = None
    /\ pc = "feed"
    /\ children = [c \in Containers |-> <<>>]
    /\ last = [op |-> "popline", out |-> <<>>]

PopLine ==
    /\ pc = "feed"
    /\ Len(last.out) < Len(text) + 2
    /\ LET r == popline(feed)
       IN /\ feed' = r.fd
          /\ last' = [last EXCEPT !.out = Append(@, r.ret)]
    /\ UNCHANGED <<text, line, root, rendered, pc, children>>

NextFeed == PopLine

SpecFeed == InitFeed /\ [][NextFeed]_vars

----------------------------------------------------------------------------
(* Reading a feed with every cursor operation: a Feed is made over a text  *)
(* and peekchar(), popchar() and popline() are called in any order.        *)
(* `last` keeps the last call, the feed before it and the value it         *)
(* returned, the values that popchar() and popline() returned so far, in   *)
(* order, and the value of the peekchar() that came immediately before the *)
(* last call, if one did.                                                  *)

MaxCursorLen == 4

CursorTexts == UNION {TextsOfLen(n) : n \in 0..MaxCursorLen}

\* No peekchar() came immediately before
NoPeek == <<"<no peek>">>

InitCursor ==
    /\ text \in CursorTexts
    /\ feed = FeedInit(text)
    /\ line = None
    /\ root = <<>>
    /\ rendered = None
    /\ pc = "cursor"
    /\ children = [c \in Containers |-> <<>>]
    /\ last = [op |-> "Feed", before |-> feed, ret |-> None, out |-> <<>>,
               peeked |-> NoPeek]

\* The value peekchar() returned, if the last call was peekchar()
Peeked == IF last.op = "peekchar" THEN last.ret ELSE NoPeek

\* The calls go on until two more than the text has characters
MorePops == pc = "cursor" /\ Len(last.out) < Len(text) + 2

Popped(op, r) ==
    /\ feed' = r.fd
    /\ last' = [op |-> op, before |-> feed, ret |-> r.ret,
                out |-> Append(last.out, r.ret), peeked |-> Peeked]
    /\ UNCHANGED <<text, line, root, rendered, pc, children>>

PeekChar ==
    /\ pc = "cursor"
    /\ feed' = peekchar(feed).fd
    /\ last' = [op |-> "peekchar", before |-> feed, ret |-> peekchar(feed).ret,
                out |-> last.out, peeked |-> Peeked]
    /\ UNCHANGED <<text, line, root, rendered, pc, children>>

PopChar == MorePops /\ Popped("popchar", popchar(feed))

PopLineCall == MorePops /\ Popped("popline", popline(feed))

NextCursor ==
    \/ PeekChar
    \/ PopChar
    \/ PopLineCall

SpecCursor == InitCursor /\ [][NextCursor]_vars

----------------------------------------------------------------------------
(* Rendering (base/node.py).                                               *)

\* What a call gives when Python ends it with an exception
Raised == <<"<raised>">>

\* A join that falls back to no separator at all when none is declared
JoinSeparator_empty_fallback(n) ==
    IF Separator(n) # None THEN Separator(n) ELSE <<>>

\* JoinNode.render(): the separator used
JoinSeparator(n) ==
    IF Separator(n) # None THEN Separator(n) ELSE <<" ">>

\* node.render() for a StringNode leaf or a JoinNode container.  A container
\* that contains itself, directly or through others, recurses until Python
\* raises RecursionError: on a path of more containers than there are, one
\* of them repeats.
RECURSIVE render_depth(_, _, _)
render_depth(ch, n, fuel) ==
    IF n \in Leaves THEN Value(n)
    ELSE IF fuel = 0 THEN Raised
    ELSE LET parts == [i \in 1..Len(ch[n]) |-> render_depth(ch, ch[n][i], fuel - 1)]
         IN IF \E i \in 1..Len(parts) : parts[i] = Raised THEN Raised
            ELSE Join(JoinSeparator(n), parts)

\* A render() whose result depends on state outside the tree: on whether
\* a call was made before
render_with_hidden_state(ch, n) ==
    IF pc = "build" THEN render_depth(ch, n, Cardinality(Containers))
    ELSE <<>>

render(ch, n) == render_depth(ch, n, Cardinality(Containers))

\* node.render_json() for a StringNode leaf or a JoinNode container:
\* [raised, json].  LeafNode gives its type and value, ContainerNode its
\* type and the render_json() of its children, and JoinNode adds its
\* separator.  A container that contains itself ends in RecursionError.
RECURSIVE render_json_depth(_, _, _)
render_json_depth(ch, n, fuel) ==
    IF n \in Leaves
    THEN [raised |-> FALSE, json |-> [type |-> NodeType(n), value |-> Value(n)]]
    ELSE IF fuel = 0 THEN [raised |-> TRUE, json |-> [type |-> NodeType(n)]]
    ELSE LET parts == [i \in 1..Len(ch[n]) |->
                          render_json_depth(ch, ch[n][i], fuel - 1)]
         IN IF \E i \in 1..Len(parts) : parts[i].raised
            THEN [raised |-> TRUE, json |-> [type |-> NodeType(n)]]
            ELSE [raised |-> FALSE,
                  json |-> [type |-> NodeType(n),
                            children |-> [i \in 1..Len(parts) |-> parts[i].json],
                            separator |-> Separator(n)]]

render_json(ch, n) == render_json_depth(ch, n, Cardinality(Containers))

----------------------------------------------------------------------------
(* Matchers (base/matcher.py).                                             *)

\* An optional argument: NoArg is Python's None, Arg(v) a given value
NoArg == <<>>
Arg(v) == <<v>>

\* `a or dflt` for an optional number: None and 0 are falsy
OrNumber(a, dflt) == IF a = NoArg \/ a[1] = 0 THEN dflt ELSE a[1]

\* `a or dflt` for an optional string
OrString(a, dflt) == IF a = NoArg THEN dflt ELSE a[1]

\* A keyword argument's value, or the default when it was not passed
Given(a, dflt) == IF a = NoArg THEN dflt ELSE a[1]

DefaultMaxCount == -1
DefaultMaxDepth == 6

\* Matcher.__init__: maxcount, rettype (and rootnode) are taken from the
\* keyword arguments; maxdepth is always the default.
Matcher(kind, arg, maxcount, rettype) ==
    [kind |-> kind, arg |-> arg,
     maxcount |-> Given(maxcount, DefaultMaxCount),
     maxdepth |-> DefaultMaxDepth,
     rettype |-> Given(rettype, "node")]

\* TypeValueMatcher(nodetype, value), ParentOfMatcher(matcher),
\* DescendantOfMatcher(matcher, depth) and ChildOfMatcher(matcher), which is
\* DescendantOfMatcher with depth 1: the criteria are kept in `arg`
TypeValueMatcher(nodetype, value, maxcount, rettype) ==
    Matcher("TypeValueMatcher", [nodetype |-> nodetype, value |-> value],
            maxcount, rettype)

ParentOfMatcher(sub, maxcount, rettype) ==
    Matcher("ParentOfMatcher", [matcher |-> sub], maxcount, rettype)

DescendantOfMatcher(sub, depth, maxcount, rettype) ==
    Matcher("DescendantOfMatcher", [matcher |-> sub, depth |-> depth],
            maxcount, rettype)

ChildOfMatcher(sub, maxcount, rettype) ==
    Matcher("ChildOfMatcher", [matcher |-> sub, depth |-> 1], maxcount, rettype)

\* sub.match(node): a call of match without its nodepath argument.  Every
\* matcher class declares match(self, node, nodepath), so Python raises
\* TypeError before the body runs.
match_without_nodepath(ch, sub, node) == "Raise"

\* matcher.match(node, nodepath): "True", "False", "None" (the method falls
\* off its end) or "Raise" (an exception leaves it)
RECURSIVE match(_, _, _, _)
match(ch, m, node, nodepath) ==
    CASE m.kind = "NodeMatcher" ->
            IF node = m.arg THEN "True" ELSE "False"
      [] m.kind = "TypeMatcher" ->
            IF NodeType(node) = m.arg THEN "True" ELSE "False"
      [] m.kind = "ValueMatcher" ->
            IF node \in Containers THEN "Raise"
            ELSE IF Value(node) = m.arg THEN "True" ELSE "False"
      [] m.kind = "TypeValueMatcher" ->
            IF NodeType(node) # m.arg.nodetype THEN "False"
            ELSE IF node \in Containers THEN "Raise"
            ELSE IF Value(node) = m.arg.value THEN "True" ELSE "False"
      [] m.kind \in {"DescendantOfMatcher", "ChildOfMatcher"} ->
            IF Len(nodepath) > m.arg.depth
            THEN match_without_nodepath(ch, m.arg.matcher,
                                        nodepath[Len(nodepath) - m.arg.depth])
            ELSE "None"
      [] m.kind = "ParentOfMatcher" ->
            IF node \in Containers
            THEN LET kids == ch[node]
                     r == [i \in 1..Len(kids) |->
                            match(ch, m.arg.matcher, kids[i],
                                  nodepath \o <<kids[i]>>)]
                     ends == {i \in 1..Len(kids) : r[i] \in {"True", "Raise"}}
                 IN IF ends = {} THEN "None"
                    ELSE r[CHOOSE i \in ends : \A j \in ends : i <= j]
            ELSE "None"
      [] OTHER -> "False"

Truthy(r) == r = "True"

----------------------------------------------------------------------------
(* Traversal and query (base/node.py).                                     *)

RECURSIVE Flatten(_)
Flatten(ss) == IF ss = <<>> THEN <<>> ELSE Head(ss) \o Flatten(Tail(ss))

\* A walkpath that yields every container after its subtree, whatever
\* `topdown` says
RECURSIVE walkpath_bottom_up(_, _, _, _, _)
walkpath_bottom_up(ch, n, nodepath, maxdepth, topdown) ==
    IF n \in Leaves THEN <<nodepath \o <<n>>>>
    ELSE (IF maxdepth > 0
          THEN Flatten([i \in 1..Len(ch[n]) |->
                  walkpath_bottom_up(ch, ch[n][i], nodepath \o <<n>>,
                                     maxdepth - 1, topdown)])
          ELSE <<>>) \o <<nodepath \o <<n>>>>

\* node.walkpath(nodepath, maxdepth, topdown): the node paths yielded, in order
RECURSIVE walkpath(_, _, _, _, _)
walkpath(ch, n, nodepath, maxdepth, topdown) ==
    LET np == nodepath \o <<n>>
    IN IF n \in Leaves THEN <<np>>
       ELSE LET below ==
                    IF maxdepth > 0
                    THEN Flatten([i \in 1..Len(ch[n]) |->
                            walkpath(ch, ch[n][i], np, maxdepth - 1, topdown)])
                    ELSE <<>>
            IN IF topdown THEN <<np>> \o below ELSE below \o <<np>>

\* node.walk(maxdepth, topdown): [raised, nodes], the nodes yielded, in
\* order.  ContainerNode.walk passes maxdepth - 1 on and never tests it; a
\* container that contains itself recurses until RecursionError.
RECURSIVE walk_depth(_, _, _, _, _)
walk_depth(ch, n, maxdepth, topdown, fuel) ==
    IF n \in Leaves THEN [raised |-> FALSE, nodes |-> <<n>>]
    ELSE IF fuel = 0 THEN [raised |-> TRUE, nodes |-> <<>>]
    ELSE LET parts == [i \in 1..Len(ch[n]) |->
                          walk_depth(ch, ch[n][i], maxdepth - 1, topdown, fuel - 1)]
             below == Flatten([i \in 1..Len(parts) |-> parts[i].nodes])
         IN IF \E i \in 1..Len(parts) : parts[i].raised
            THEN [raised |-> TRUE, nodes |-> <<>>]
            ELSE [raised |-> FALSE,
                  nodes |-> IF topdown THEN <<n>> \o below ELSE below \o <<n>>]

walk(ch, n, maxdepth, topdown) ==
    walk_depth(ch, n, maxdepth, topdown, Cardinality(Containers))

NoneNode == "None"

\* A parentchild projection that pairs the match with the query root
Projected_root_as_parent(rettype, nodepath) ==
    CASE rettype = "node" -> nodepath[Len(nodepath)]
      [] rettype = "path" -> nodepath
      [] rettype = "parentchild" ->
            IF Len(nodepath) > 1
            THEN <<nodepath[1], nodepath[Len(nodepath)]>>
            ELSE <<NoneNode, nodepath[Len(nodepath)]>>

\* What find() appends for a match, by rettype
Projected(rettype, nodepath) ==
    CASE rettype = "node" -> nodepath[Len(nodepath)]
      [] rettype = "path" -> nodepath
      [] rettype = "parentchild" ->
            IF Len(nodepath) > 1
            THEN SubSeq(nodepath, Len(nodepath) - 1, Len(nodepath))
            ELSE <<NoneNode, nodepath[Len(nodepath)]>>

\* The loop of find() over the node paths that walkpath yields.  The loop
\* takes the paths in order; it ends with the exception of the first match()
\* that raises, or at the `break` on the match that brings len(l) to
\* matcher.maxcount, whichever comes first, and otherwise with the last path.
find_loop(ch, m, rettype, paths) ==
    LET n == Len(paths)
        result(i) == match(ch, m, paths[i][Len(paths[i])], paths[i])
        raises == {i \in 1..n : result(i) = "Raise"}
        firstRaise ==
            IF raises = {} THEN n + 1
            ELSE CHOOSE i \in raises : \A j \in raises : i <= j
        hits == SelectSeq([i \in 1..n |-> i], LAMBDA i : Truthy(result(i)))
        breaks == m.maxcount >= 1 /\ Len(hits) >= m.maxcount
        breakAt == IF breaks THEN hits[m.maxcount] ELSE n + 1
        taken == IF breaks THEN SubSeq(hits, 1, m.maxcount) ELSE hits
    IN IF firstRaise < breakAt THEN [raised |-> TRUE, ret |-> <<>>]
       ELSE [raised |-> FALSE,
             ret |-> [k \in 1..Len(taken) |-> Projected(rettype, paths[taken[k]])]]

\* The nodes that the loop of find() passes to matcher.match(), in order:
\* those of the paths up to the one where the loop ends
find_evaluated(ch, m, paths) ==
    LET n == Len(paths)
        result(i) == match(ch, m, paths[i][Len(paths[i])], paths[i])
        raises == {i \in 1..n : result(i) = "Raise"}
        firstRaise ==
            IF raises = {} THEN n
            ELSE CHOOSE i \in raises : \A j \in raises : i <= j
        hits == SelectSeq([i \in 1..n |-> i], LAMBDA i : Truthy(result(i)))
        breakAt == IF m.maxcount >= 1 /\ Len(hits) >= m.maxcount
                   THEN hits[m.maxcount] ELSE n
        stop == IF firstRaise < breakAt THEN firstRaise ELSE breakAt
    IN [i \in 1..stop |-> paths[i][Len(paths[i])]]

\* ContainerNode.find(matcher, maxcount, maxdepth, rettype) on container n:
\* [raised, ret].  The local maxcount is computed and never read.
find(ch, n, m, maxcount, maxdepth, rettype) ==
    LET rt == OrString(rettype, m.rettype)
        mc == OrNumber(maxcount, m.maxcount)
        md == OrNumber(maxdepth, m.maxdepth)
    IN find_loop(ch, m, rt, walkpath(ch, n, <<>>, md, TRUE))

\* ContainerNode.find_first(matcher, maxdepth, rettype): [raised, none, ret]
find_first(ch, n, m, maxdepth, rettype) ==
    LET results == find(ch, n, m, Arg(1), maxdepth, rettype)
    IN IF results.raised THEN [raised |-> TRUE, none |-> FALSE, ret |-> NoneNode]
       ELSE IF results.ret # <<>>
       THEN [raised |-> FALSE, none |-> FALSE, ret |-> results.ret[1]]
       ELSE [raised |-> FALSE, none |-> TRUE, ret |-> NoneNode]

----------------------------------------------------------------------------
(* Editing a tree.  A run builds a structure with add(), then makes one    *)
(* call of a mutation primitive of ContainerNode, on any container with    *)
(* any nodes.  `last` keeps the call, the child lists before it and the    *)
(* value it returned.                                                      *)

InitTree ==
    /\ ParseIdle
    /\ children = [c \in Containers |-> <<>>]
    /\ last = [op |-> "none"]

\* The whole structure after container c's child list became l
With(c, l) == [children EXCEPT ![c] = l]

\* c.add(n) while the structure is being built, up to `slots` child slots
Build(slots) ==
    /\ pc = "build"
    /\ TotalSlots(children) < slots
    /\ \E c \in Containers, n \in Nodes :
          children' = With(c, add(children[c], n))
    /\ UNCHANGED <<last, pc, text, feed, line, root, rendered>>

Call(op, c, node, rel, append, ret) ==
    [op |-> op, c |-> c, node |-> node, rel |-> rel, append |-> append,
     before |-> children, ret |-> ret]

\* The one call of a run
Called ==
    /\ pc = "build"
    /\ pc' = "called"
    /\ UNCHANGED <<text, feed, line, root, rendered>>

Add ==
    /\ Called
    /\ \E c \in Containers, n \in Nodes :
          /\ children' = With(c, add(children[c], n))
          /\ last' = Call("add", c, n, n, FALSE, "None")

InsertBefore ==
    /\ Called
    /\ \E c \in Containers, n \in Nodes, rel \in Nodes, append \in BOOLEAN :
          /\ children' = With(c, insert_before(children[c], n, rel, append))
          /\ last' = Call("insert_before", c, n, rel, append, "None")

InsertAfter ==
    /\ Called
    /\ \E c \in Containers, n \in Nodes, rel \in Nodes, append \in BOOLEAN :
          /\ children' = With(c, insert_after(children[c], n, rel, append))
          /\ last' = Call("insert_after", c, n, rel, append, "None")

Remove ==
    /\ Called
    /\ \E c \in Containers, n \in Nodes :
          /\ children' = With(c, remove(children[c], n))
          /\ last' = Call("remove", c, n, n, FALSE, "None")

Upsert ==
    /\ Called
    /\ \E c \in Containers, old \in Nodes, new \in Nodes :
          /\ children' = With(c, upsert(children[c], old, new))
          /\ last' = Call("upsert", c, new, old, FALSE, "None")

Index ==
    /\ Called
    /\ \E c \in Containers, n \in Nodes :
          last' = Call("index", c, n, n, FALSE, index(children[c], n))
    /\ UNCHANGED children

BuildEdit == Build(MaxSlots)

NextEdit ==
    \/ BuildEdit
    \/ Add
    \/ InsertBefore
    \/ InsertAfter
    \/ Remove
    \/ Upsert
    \/ Index

SpecEdit == InitTree /\ [][NextEdit]_vars

----------------------------------------------------------------------------
(* Rendering a tree: a run builds a structure with add(), then renders a   *)
(* node of it.                                                             *)

RenderCall ==
    /\ Called
    /\ \E n \in Nodes :
          last' = [op |-> "render", c |-> n, before |-> children,
                   ret |-> render(children, n)]
    /\ UNCHANGED children

BuildRender == Build(MaxRenderSlots)

NextRender ==
    \/ BuildRender
    \/ RenderCall

SpecRender == InitTree /\ [][NextRender]_vars

----------------------------------------------------------------------------
(* Querying a tree: a run builds a structure with add(), then makes one    *)
(* call of find() or find_first() on a container, with a matcher.          *)

Types == {NodeType(n) : n \in Nodes}

Predicates ==
    {<<"NodeMatcher", n>> : n \in {"opts", "o1"}}
        \cup {<<"TypeMatcher", t>> : t \in Types}
        \cup {<<"ValueMatcher", Value(n)>> : n \in {"o1"}}

\* The maxcount a matcher is constructed with: not given, or 1..MaxCount
CountArgs == {NoArg} \cup {Arg(k) : k \in 1..MaxCount}

\* The maxdepth find() is called with: not given, or 0..MaxDepth
DepthArgs == {NoArg} \cup {Arg(d) : d \in 0..MaxDepth}

Rettypes == {"node", "path", "parentchild"}
RettypeArgs == {NoArg} \cup {Arg(t) : t \in Rettypes}

Matchers == {Matcher(p[1], p[2], mc, NoArg) : p \in Predicates, mc \in CountArgs}

\* The calls of find(): at most one of its optional arguments is given
FindArgs ==
    {<<mc, NoArg, NoArg>> : mc \in CountArgs}
        \cup {<<NoArg, md, NoArg>> : md \in DepthArgs}
        \cup {<<NoArg, NoArg, rt>> : rt \in RettypeArgs}

Find ==
    /\ Called
    /\ \E c \in Containers, m \in Matchers, a \in FindArgs :
          LET r == find(children, c, m, a[1], a[2], a[3])
          IN last' = [op |-> "find", c |-> c, m |-> m, maxcount |-> a[1],
                      maxdepth |-> a[2], rettype |-> a[3], before |-> children,
                      raised |-> r.raised, ret |-> r.ret]
    /\ UNCHANGED children

FindFirst ==
    /\ Called
    /\ \E c \in Containers, m \in Matchers :
          LET r == find_first(children, c, m, NoArg, NoArg)
          IN last' = [op |-> "find_first", c |-> c, m |-> m,
                      maxdepth |-> NoArg, rettype |-> NoArg, before |-> children,
                      raised |-> r.raised, none |-> r.none, ret |-> r.ret]
    /\ UNCHANGED children

BuildFind == Build(MaxFindSlots)

NextFind ==
    \/ BuildFind
    \/ Find
    \/ FindFirst

SpecFind == InitTree /\ [][NextFind]_vars

----------------------------------------------------------------------------
(* Matching with every matcher class: a run builds a structure with add(), *)
(* then makes one call of find() or find_first() with a matcher of any     *)
(* class, or one call of match() of a composite matcher on a node path of  *)
(* the structure.                                                          *)

\* A matcher to construct, as <<class, criteria>>
SimpleSpecs ==
    Predicates \cup {<<"TypeValueMatcher", <<"StringNode", Value("o1")>>>>}

AncestorDepths == 1..MaxDepth

CompositeSpecs ==
    {<<"ParentOfMatcher", s>> : s \in SimpleSpecs}
        \cup {<<"ChildOfMatcher", s>> : s \in SimpleSpecs}
        \cup {<<"DescendantOfMatcher", <<s, k>>>> :
                s \in SimpleSpecs, k \in AncestorDepths}

MatcherSpecs == SimpleSpecs \cup CompositeSpecs

\* The matcher constructed with no keyword argument
RECURSIVE MatcherOf(_)
MatcherOf(p) ==
    CASE p[1] = "TypeValueMatcher" ->
            TypeValueMatcher(p[2][1], p[2][2], NoArg, NoArg)
      [] p[1] = "ParentOfMatcher" ->
            ParentOfMatcher(MatcherOf(p[2]), NoArg, NoArg)
      [] p[1] = "ChildOfMatcher" ->
            ChildOfMatcher(MatcherOf(p[2]), NoArg, NoArg)
      [] p[1] = "DescendantOfMatcher" ->
            DescendantOfMatcher(MatcherOf(p[2][1]), p[2][2], NoArg, NoArg)
      [] OTHER -> Matcher(p[1], p[2], NoArg, NoArg)

FindAny ==
    /\ Called
    /\ \E c \in Containers, p \in MatcherSpecs :
          LET m == MatcherOf(p)
              r == find(children, c, m, NoArg, NoArg, NoArg)
          IN last' = [op |-> "find", c |-> c, m |-> m, maxcount |-> NoArg,
                      maxdepth |-> NoArg, rettype |-> NoArg, before |-> children,
                      raised |-> r.raised, ret |-> r.ret]
    /\ UNCHANGED children

FindFirstAny ==
    /\ Called
    /\ \E c \in Containers, p \in MatcherSpecs :
          LET m == MatcherOf(p)
              r == find_first(children, c, m, NoArg, NoArg)
          IN last' = [op |-> "find_first", c |-> c, m |-> m,
                      maxdepth |-> NoArg, rettype |-> NoArg, before |-> children,
                      raised |-> r.raised, none |-> r.none, ret |-> r.ret]
    /\ UNCHANGED children

\* m.match(nodepath[-1], nodepath) for a composite matcher m and a node path
\* that walkpath yields from container c
MatchCall ==
    /\ Called
    /\ \E c \in Containers, p \in CompositeSpecs :
          LET paths == walkpath(children, c, <<>>, MaxDepth, TRUE)
          IN \E i \in 1..Len(paths) :
                LET m == MatcherOf(p)
                    node == paths[i][Len(paths[i])]
                IN last' = [op |-> "match", c |-> c, m |-> m, node |-> node,
                            nodepath |-> paths[i], before |-> children,
                            ret |-> match(children, m, node, paths[i])]
    /\ UNCHANGED children

BuildMatch == Build(MaxFindSlots)

NextMatch ==
    \/ BuildMatch
    \/ FindAny
    \/ FindFirstAny
    \/ MatchCall

SpecMatch == InitTree /\ [][NextMatch]_vars

----------------------------------------------------------------------------
(* Bulk removal: a run builds a structure with add(), then passes the      *)
(* "parentchild" result of one find() to remove_child_nodes().             *)

\* remove_child_nodes(parentchilds): [raised, ch], the structure it leaves.
\* A pair whose parent is None ends the loop with AttributeError
\* (None.remove); the removals made before it stay.
RECURSIVE remove_child_nodes(_, _)
remove_child_nodes(ch, parentchilds) ==
    IF parentchilds = <<>> THEN [raised |-> FALSE, ch |-> ch]
    ELSE LET parentnode == Head(parentchilds)[1]
             childnode == Head(parentchilds)[2]
         IN IF parentnode = NoneNode THEN [raised |-> TRUE, ch |-> ch]
            ELSE remove_child_nodes(
                    [ch EXCEPT ![parentnode] = remove(ch[parentnode], childnode)],
                    Tail(parentchilds))

\* remove_child_nodes(c.find(m, maxdepth=MaxDepth, rettype="parentchild"))
RemoveChildNodes ==
    /\ Called
    /\ \E c \in Containers, p \in MatcherSpecs :
          LET m == MatcherOf(p)
              found == find(children, c, m, NoArg, Arg(MaxDepth), Arg("parentchild"))
              r == IF found.raised THEN [raised |-> TRUE, ch |-> children]
                   ELSE remove_child_nodes(children, found.ret)
          IN /\ children' = r.ch
             /\ last' = [op |-> "remove_child_nodes", c |-> c, m |-> m,
                         before |-> children, found |-> found,
                         raised |-> r.raised]

BuildRemove == Build(MaxFindSlots)

NextRemove ==
    \/ BuildRemove
    \/ RemoveChildNodes

SpecRemove == InitTree /\ [][NextRemove]_vars

----------------------------------------------------------------------------
(* End-to-end removal on a line file: a text of whole lines is parsed with *)
(* the default line grammar, the leaf whose value is "/old" is looked up   *)
(* with find_first(matcher, rettype="parentchild"), the pair found is      *)
(* passed to remove_child_nodes() and the tree is rendered.  A node of the *)
(* parsed tree is referred to by its position: 0 is the LinesNode that     *)
(* parse() returned, i its i-th child.                                     *)

MaxLines == 3

Old == <<"/", "o", "l", "d">>

LineChoices == {Old, <<"/", "n", "e", "w">>, <<"#", "c">>, <<>>}

\* The texts of up to MaxLines lines, each with its line terminator
LineTexts ==
    UNION {{Flatten([i \in 1..n |-> ls[i] \o <<"\n">>]) :
                ls \in [1..n -> LineChoices]} : n \in 0..MaxLines}

InitScenario ==
    /\ text \in LineTexts
    /\ feed = FeedInit(text)
    /\ line = None
    /\ root = <<>>
    /\ rendered = None
    /\ pc = "new"
    /\ TreeIdle

\* The parent find() gives for a match at the query root: None
NoParent == -1

\* walkpath() of the LinesNode with children kids
lines_walkpath(kids) == <<<<0>>>> \o [i \in 1..Len(kids) |-> <<0, i>>]

\* matcher.match(node, nodepath) on a node of the parsed tree: the
\* LinesNode has no value
lines_match(kids, m, ref) ==
    CASE m.kind = "ValueMatcher" ->
            IF ref = 0 THEN "Raise"
            ELSE IF kids[ref].value = m.arg THEN "True" ELSE "False"
      [] m.kind = "TypeValueMatcher" ->
            IF ref = 0 THEN "False"
            ELSE IF kids[ref].type # m.arg.nodetype THEN "False"
            ELSE IF kids[ref].value = m.arg.value THEN "True" ELSE "False"
      [] OTHER -> "False"

\* root.find_first(m, rettype="parentchild"): [raised, none, ret]
lines_find_first(kids, m) ==
    LET paths == lines_walkpath(kids)
        r == [k \in 1..Len(paths) |->
                lines_match(kids, m, paths[k][Len(paths[k])])]
        ends == {k \in 1..Len(paths) : r[k] \in {"True", "Raise"}}
        k0 == CHOOSE k \in ends : \A j \in ends : k <= j
    IN IF ends = {} THEN [raised |-> FALSE, none |-> TRUE, ret |-> <<>>]
       ELSE IF r[k0] = "Raise" THEN [raised |-> TRUE, none |-> FALSE, ret |-> <<>>]
       ELSE [raised |-> FALSE, none |-> FALSE,
             ret |-> IF Len(paths[k0]) > 1
                     THEN SubSeq(paths[k0], Len(paths[k0]) - 1, Len(paths[k0]))
                     ELSE <<NoParent, paths[k0][Len(paths[k0])]>>]

\* remove_child_nodes([parentchild]) for the result of find_first:
\* [raised, kids].  None in place of a pair cannot be unpacked (TypeError),
\* and a pair with parent None raises AttributeError.
lines_remove_child_nodes(kids, ff) ==
    IF ff.none \/ ff.ret[1] = NoParent THEN [raised |-> TRUE, kids |-> kids]
    ELSE [raised |-> FALSE,
          kids |-> SubSeq(kids, 1, ff.ret[2] - 1)
                       \o SubSeq(kids, ff.ret[2] + 1, Len(kids))]

\* The matchers for "the leaf whose value equals /old"
OldMatchers ==
    {<<"ValueMatcher", Old>>, <<"TypeValueMatcher", <<"LineNode", Old>>>>}

RemoveOld ==
    /\ pc = "parsed"
    /\ \E p \in OldMatchers :
          LET m == MatcherOf(p)
              ff == lines_find_first(root, m)
              rm == IF ff.raised THEN [raised |-> TRUE, kids |-> root]
                    ELSE lines_remove_child_nodes(root, ff)
          IN /\ root' = rm.kids
             /\ rendered' = IF rm.raised THEN None ELSE LinesNode_render(rm.kids)
             /\ pc' = IF rm.raised THEN "raised" ELSE "rendered"
             /\ last' = [op |-> "remove_old", m |-> m, before |-> root,
                         raised |-> rm.raised]
    /\ UNCHANGED <<text, feed, line, children>>

NextScenario ==
    \/ Construct
    \/ ParseComment
    \/ ParseBlank
    \/ ParseLine
    \/ ParseReturn
    \/ RemoveOld

SpecScenario == InitScenario /\ [][NextScenario]_vars

----------------------------------------------------------------------------
(* Loading a file (base/editor.py) with the systemd grammar                *)
(* (os/systemd.py): Editor.load() on an editor whose root is None or a     *)
(* tree of an earlier load.  `root` is the local tree that parse() builds, *)
(* `last` the editor: its root before the call, its root now, and the      *)
(* exception that left load(), if any.                                     *)

SdLineChoices ==
    {<<"[", "s", "]">>, <<"a", "=", "b">>, <<"a">>, <<"#", "c">>, <<>>}

\* The files of up to MaxLines lines, each with its line terminator
SdTexts ==
    UNION {{Flatten([i \in 1..n |-> ls[i] \o <<"\n">>]) :
                ls \in [1..n -> SdLineChoices]} : n \in 0..MaxLines}

\* A node of the systemd tree
SdNode(type, value, kids) == [type |-> type, value |-> value, kids |-> kids]

\* The editor's root: None, or a tree
NoRoot == [set |-> FALSE, tree |-> <<>>]
Stored(tree) == [set |-> TRUE, tree |-> tree]

PriorRoots ==
    {NoRoot, Stored(<<SdNode("CommentLineNode", <<"#", "c">>, <<>>)>>)}

\* A load that stores whatever parse() had built when it raised
load_keeps_partial_tree(before, tree, raised) == Stored(tree)

\* Editor.load(): self.root after the call, given self.root before it, the
\* tree that parse() built and whether parse() raised.  `self.root = root`
\* follows the call of parse() and is not reached when it raises.
load(before, tree, raised) == IF raised THEN before ELSE Stored(tree)

\* SystemdConfFileParser.is_comment_line
sd_is_comment_line(l) == StartsWith(l, "#") \/ StartsWith(l, ";")

\* str.endswith(c) for a one-character c
EndsWith(s, c) == Len(s) > 0 /\ s[Len(s)] = c

\* What parse_setting() returns after its call of next():
\* [fd, line, node, error]
setting_node(r, name, value) ==
    [fd |-> r.fd, line |-> r.line, error |-> FALSE,
     node |-> SdNode("SettingNode", <<>>,
                 <<SdNode("NameNode", name, <<>>),
                   SdNode("ValueNode", value, <<>>)>>)]

\* parse_setting(): [fd, line, node, error].  A line without "=" cannot be
\* unpacked into name and value: ParsingError("missing name and value").
parse_setting(fd, l) ==
    IF StrIndex(l, "=") = 0
    THEN [fd |-> fd, line |-> l, error |-> TRUE,
          node |-> SdNode("None", <<>>, <<>>)]
    ELSE setting_node(LineParser_next(fd),
                      SubSeq(l, 1, StrIndex(l, "=") - 1),
                      SubSeq(l, StrIndex(l, "=") + 1, Len(l)))

\* The loop of parse_section() over the lines of the section:
\* [fd, line, kids, error].  parse_commentline() and parse_blankline() keep
\* the line and call next(); the exception of parse_setting() ends the loop.
RECURSIVE parse_settings(_, _, _)
settings_add(r, kids, node) ==
    parse_settings(r.fd, r.line, Append(kids, node))

settings_setting(s, kids) ==
    IF s.error
    THEN [fd |-> s.fd, line |-> s.line, kids |-> kids, error |-> TRUE]
    ELSE settings_add(s, kids, s.node)

parse_settings(fd, l, kids) ==
    IF l = EOF THEN [fd |-> fd, line |-> l, kids |-> kids, error |-> FALSE]
    ELSE IF sd_is_comment_line(l)
    THEN settings_add(LineParser_next(fd), kids,
                      SdNode("CommentLineNode", l, <<>>))
    ELSE IF l = <<>>
    THEN settings_add(LineParser_next(fd), kids,
                      SdNode("BlankLineNode", l, <<>>))
    ELSE IF ~StartsWith(l, "[")
    THEN settings_setting(parse_setting(fd, l), kids)
    ELSE [fd |-> fd, line |-> l, kids |-> kids, error |-> FALSE]

\* What parse_section() returns for the settings s it parsed
section_node(secname, s) ==
    [fd |-> s.fd, line |-> s.line, error |-> s.error,
     node |-> SdNode("SectionNode", <<>>,
                 IF s.kids # <<>>
                 THEN <<SdNode("HeaderNode", secname, <<>>),
                        SdNode("SettingsNode", <<>>, s.kids)>>
                 ELSE <<SdNode("HeaderNode", secname, <<>>)>>)]

\* The settings of a section, from the feed as next() left it
section_settings(r) == parse_settings(r.fd, r.line, <<>>)

\* parse_section(): [fd, line, node, error]
parse_section(fd, l) ==
    section_node(Strip(SubSeq(l, 2, Len(l) - 1)),
                 section_settings(LineParser_next(fd)))

InitLoad ==
    /\ text \in SdTexts
    /\ feed = FeedInit(text)
    /\ line = None
    /\ root = <<>>
    /\ rendered = None
    /\ pc = "new"
    /\ children = [c \in Containers |-> <<>>]
    /\ \E r \in PriorRoots :
          last = [op |-> "load", before |-> r, root |-> r, error |-> "None"]

\* parse(): root = RootNode(); self.next()
SdBegin ==
    /\ pc = "parse"
    /\ root' = <<>>
    /\ LET r == LineParser_next(feed)
       IN /\ feed' = r.fd
          /\ line' = r.line
    /\ pc' = "sd_loop"
    /\ UNCHANGED <<text, rendered, children, last>>

\* One iteration of the loop of parse(), by branch.
SdComment ==
    /\ pc = "sd_loop" /\ line # EOF
    /\ sd_is_comment_line(line)
    /\ root' = Append(root, SdNode("CommentLineNode", line, <<>>))
    /\ LET r == LineParser_next(feed)
       IN /\ feed' = r.fd
          /\ line' = r.line
    /\ UNCHANGED <<text, rendered, pc, children, last>>

SdBlank ==
    /\ pc = "sd_loop" /\ line # EOF
    /\ ~sd_is_comment_line(line)
    /\ line = <<>>
    /\ root' = Append(root, SdNode("BlankLineNode", line, <<>>))
    /\ LET r == LineParser_next(feed)
       IN /\ feed' = r.fd
          /\ line' = r.line
    /\ UNCHANGED <<text, rendered, pc, children, last>>

\* parse() after parse_section() gave s: the section is added to root, or
\* the ParsingError of one of its settings leaves parse() and load()
SectionParsed(s) ==
    /\ feed' = s.fd
    /\ line' = s.line
    /\ root' = IF s.error THEN root ELSE Append(root, s.node)
    /\ pc' = IF s.error THEN "raised" ELSE pc
    /\ last' = IF s.error
               THEN [last EXCEPT !.root = load(last.root, root, TRUE),
                                 !.error = "ParsingError"]
               ELSE last

SdSection ==
    /\ pc = "sd_loop" /\ line # EOF
    /\ ~sd_is_comment_line(line)
    /\ line # <<>>
    /\ StartsWith(line, "[") /\ EndsWith(line, "]")
    /\ SectionParsed(parse_section(feed, line))
    /\ UNCHANGED <<text, rendered, children>>

\* raise ParsingError("missing section"): it leaves parse() and load()
SdMissingSection ==
    /\ pc = "sd_loop" /\ line # EOF
    /\ ~sd_is_comment_line(line)
    /\ line # <<>>
    /\ ~(StartsWith(line, "[") /\ EndsWith(line, "]"))
    /\ pc' = "raised"
    /\ last' = [last EXCEPT !.root = load(last.root, root, TRUE),
                            !.error = "ParsingError"]
    /\ UNCHANGED <<text, feed, line, root, rendered, children>>

\* parse() returns root and load() stores it
SdReturn ==
    /\ pc = "sd_loop" /\ line = EOF
    /\ pc' = "loaded"
    /\ last' = [last EXCEPT !.root = load(last.root, root, FALSE)]
    /\ UNCHANGED <<text, feed, line, root, rendered, children>>

NextLoad ==
    \/ Construct
    \/ SdBegin
    \/ SdComment
    \/ SdBlank
    \/ SdSection
    \/ SdMissingSection
    \/ SdReturn

SpecLoad == InitLoad /\ [][NextLoad]_vars

----------------------------------------------------------------------------
(* Matcher parameters given at construction: a run builds a structure with *)
(* add(), then calls find() with no argument but a matcher constructed     *)
(* with any of the keywords maxcount, maxdepth and rettype.                *)

\* Matcher.__init__ called with a maxdepth keyword as well.  The first loop
\* takes maxcount, rettype and rootnode only; the second stores every other
\* keyword as a criterion, here _maxdepth, and self.maxdepth stays 6.
MatcherKw(kind, arg, maxcount, maxdepth, rettype) ==
    [kind |-> kind, arg |-> arg,
     maxcount |-> Given(maxcount, DefaultMaxCount),
     maxdepth |-> DefaultMaxDepth,
     rettype |-> Given(rettype, "node"),
     _maxdepth |-> maxdepth]

FindConstructed ==
    /\ Called
    /\ \E c \in Containers, t \in Types,
          mc \in CountArgs, md \in DepthArgs, rt \in RettypeArgs :
          LET m == MatcherKw("TypeMatcher", t, mc, md, rt)
              r == find(children, c, m, NoArg, NoArg, NoArg)
          IN last' = [op |-> "find", c |-> c, m |-> m,
                      kw |-> [maxcount |-> mc, maxdepth |-> md, rettype |-> rt],
                      maxcount |-> NoArg, maxdepth |-> NoArg, rettype |-> NoArg,
                      before |-> children, raised |-> r.raised, ret |-> r.ret]
    /\ UNCHANGED children

BuildConstructed == Build(MaxFindSlots)

NextConstructed ==
    \/ BuildConstructed
    \/ FindConstructed

SpecConstructed == InitTree /\ [][NextConstructed]_vars

----------------------------------------------------------------------------
(* Properties of the mutation primitives.                                  *)

IsChild(l, x) == \E i \in 1..Len(l) : l[i] = x

\* The position of the first occurrence of x in l
FirstAt(l, x) ==
    CHOOSE i \in 1..Len(l) : l[i] = x /\ \A j \in 1..(i - 1) : l[j] # x

\* l without its k-th item
Without(l, k) == SubSeq(l, 1, k - 1) \o SubSeq(l, k + 1, Len(l))

\* Every container but last.c has the child list it had before the call
OthersUnchanged ==
    \A c \in Containers \ {last.c} : children[c] = last.before[c]

IsInsert == last.op \in {"insert_before", "insert_after"}

\* C7: when relnode is not a child of the container, insert_before and
\* insert_after leave the child list unchanged with append=False, and with
\* append=True keep the existing children and add the node as the new last
\* child; the call returns normally.
C7_InsertTolerance ==
    (IsInsert /\ ~IsChild(last.before[last.c], last.rel)) =>
        /\ last.ret = "None"
        /\ OthersUnchanged
        /\ children[last.c] =
              IF last.append THEN Append(last.before[last.c], last.node)
              ELSE last.before[last.c]

C7_Witness ==
    /\ last.op = "insert_before"
    /\ ~IsChild(last.before[last.c], last.rel)
    /\ last.append
    /\ Len(last.before[last.c]) >= 2
    /\ children[last.c] = Append(last.before[last.c], last.node)

\* C8: upsert(old, new) replaces old by new at old's own index when old is a
\* child, the length and every other position unchanged; when old is not a
\* child it appends new as the last child and keeps the existing children.
C8_Upsert ==
    last.op = "upsert" =>
        LET b == last.before[last.c]
            a == children[last.c]
        IN /\ OthersUnchanged
           /\ IF IsChild(b, last.rel)
              THEN LET i == FirstAt(b, last.rel)
                   IN /\ Len(a) = Len(b)
                      /\ a[i] = last.node
                      /\ \A j \in 1..Len(b) : j # i => a[j] = b[j]
              ELSE a = Append(b, last.node)

C8_Witness ==
    /\ last.op = "upsert"
    /\ last.node # last.rel
    /\ Len(last.before[last.c]) = 3
    /\ last.before[last.c][2] = last.rel
    /\ ~IsChild(last.before[last.c], last.node)
    /\ children[last.c][2] = last.node

\* C9: when relnode is a child, insert_before places the node immediately
\* before relnode and insert_after immediately after it, whatever the append
\* flag; the list grows by exactly one and the children present before keep
\* their relative order.
C9_InsertAtRelnode ==
    (IsInsert /\ IsChild(last.before[last.c], last.rel)) =>
        LET b == last.before[last.c]
            a == children[last.c]
            i == FirstAt(b, last.rel)
            k == IF last.op = "insert_before" THEN i ELSE i + 1
        IN /\ OthersUnchanged
           /\ Len(a) = Len(b) + 1
           /\ a[k] = last.node
           /\ IF last.op = "insert_before" THEN a[k + 1] = last.rel
              ELSE a[k - 1] = last.rel
           /\ Without(a, k) = b

C9_Witness ==
    /\ last.op = "insert_after"
    /\ ~last.append
    /\ Len(last.before[last.c]) = 2
    /\ last.before[last.c][1] = last.rel
    /\ last.before[last.c][2] # last.rel
    /\ last.node # last.rel
    /\ children[last.c][2] = last.node

\* C10: remove(n) leaves the child list unchanged when n is not a child and
\* otherwise removes exactly one occurrence of n, the other children keeping
\* their relative order; index(n) returns n's position when n is a child and
\* -1 otherwise; both return normally.
C10_RemoveIndex ==
    /\ last.op = "remove" =>
          LET b == last.before[last.c]
              a == children[last.c]
          IN /\ last.ret = "None"
             /\ OthersUnchanged
             /\ IF IsChild(b, last.node)
                THEN \E k \in 1..Len(b) : b[k] = last.node /\ a = Without(b, k)
                ELSE a = b
    /\ last.op = "index" =>
          LET b == last.before[last.c]
          IN /\ children = last.before
             /\ IF IsChild(b, last.node)
                THEN last.ret \in 0..(Len(b) - 1) /\ b[last.ret + 1] = last.node
                ELSE last.ret = -1

C10_Witness ==
    /\ last.op = "remove"
    /\ Len(last.before[last.c]) = 3
    /\ last.before[last.c][1] = last.node
    /\ last.before[last.c][3] = last.node
    /\ last.before[last.c][2] # last.node
    /\ Len(children[last.c]) = 2

----------------------------------------------------------------------------
(* Properties of rendering.                                                *)

\* The separator each join kind declares; a record declares none and is to
\* be joined by one space
DeclaredSeparator(n) ==
    IF NodeType(n) = "CommaJoinNode" THEN <<",">> ELSE <<" ">>

\* The texts of scenario B and of a separator-less join of two leaves
DataRwSync ==
    <<"/", "d", "a", "t", "a", " ", "r", "w", ",", "s", "y", "n", "c">>
RwSync == <<"r", "w", " ", "s", "y", "n", "c">>

\* C6: JoinNode.render() returns the renderings of its children, in child
\* order, joined by the declared separator, and by exactly one space when
\* none is declared; this composes through nesting: the record of leaf
\* "/data" and the comma-joined container of "rw", "sync" renders as
\* "/data rw,sync", and two leaves under a separator-less join render with
\* one space between them.
C6_JoinRender ==
    (last.op = "render" /\ last.c \in Containers /\ last.ret # Raised) =>
        LET kids == children[last.c]
        IN /\ last.ret = Join(DeclaredSeparator(last.c),
                              [i \in 1..Len(kids) |-> render(children, kids[i])])
           /\ (/\ last.c = "rec"
               /\ kids = <<"p", "opts">>
               /\ children["opts"] = <<"o1", "o2">>) => last.ret = DataRwSync
           /\ (last.c = "rec" /\ kids = <<"o1", "o2">>) => last.ret = RwSync

C6_Witness ==
    /\ last.op = "render"
    /\ last.c = "rec"
    /\ children["rec"] = <<"p", "opts">>
    /\ children["opts"] = <<"o1", "o2">>
    /\ last.ret = DataRwSync

----------------------------------------------------------------------------
(* Properties of find() and find_first().                                  *)

\* The nodes within d child steps of node n
RECURSIVE Within(_, _, _)
Within(ch, n, d) ==
    IF d = 0 \/ n \in Leaves THEN {n}
    ELSE {n} \cup UNION {Within(ch, ch[n][i], d - 1) : i \in 1..Len(ch[n])}

\* How often node n occurs in the child lists of the structure
Occurrences(ch, n) ==
    Cardinality({<<c, i>> \in Containers \X (1..TotalSlots(ch)) :
                    i <= Len(ch[c]) /\ ch[c][i] = n})

\* A tree as a parser builds it: every node is the child of at most one
\* container, once, and no container is below itself
ProperTree(ch) ==
    /\ \A n \in Nodes : Occurrences(ch, n) <= 1
    /\ \A c \in Containers :
          \A i \in 1..Len(ch[c]) : c \notin Within(ch, ch[c][i], Cardinality(Containers))

\* A find() call on a proper tree that returned its list
FindReturned == last.op = "find" /\ ~last.raised /\ ProperTree(children)

\* The three properties below are stated of proper trees, where they already
\* fail; structures with shared or self-contained nodes are left aside.

\* C3: find(matcher, maxcount=1) returns a list of exactly one element if and
\* only if find_first(matcher) returns a result other than None, and then
\* that element is the result find_first returns; otherwise it returns the
\* empty list.
C3_FindFirstConsistency ==
    (FindReturned /\ last.maxcount = Arg(1)) =>
        LET ff == find_first(children, last.c, last.m, last.maxdepth, last.rettype)
        IN /\ ~ff.raised
           /\ Len(last.ret) = 1 <=> ~ff.none
           /\ ~ff.none => Len(last.ret) >= 1 /\ last.ret[1] = ff.ret
           /\ ff.none => last.ret = <<>>

\* C4: for every k >= 1, find(matcher, maxcount=k) returns at most k results,
\* whatever maxcount the matcher was constructed with.
C4_CountLimit ==
    (FindReturned /\ last.maxcount # NoArg) => Len(last.ret) <= last.maxcount[1]

\* C5: for every d >= 0, find(matcher, maxdepth=d) returns no node whose path
\* from the query root has more than d+1 nodes.
C5_DepthBound ==
    (FindReturned /\ last.maxdepth # NoArg) =>
        \A i \in 1..Len(last.ret) :
            last.ret[i] \in Within(children, last.c, last.maxdepth[1])

----------------------------------------------------------------------------
(* Properties of the matcher classes.                                      *)

\* A find() or find_first() call on a proper tree
Queried == last.op \in {"find", "find_first"} /\ ProperTree(children)

\* C11: for every tree and every matcher class (NodeMatcher, TypeMatcher,
\* ValueMatcher, TypeValueMatcher, ParentOfMatcher, ChildOfMatcher,
\* DescendantOfMatcher), find() completes and returns a possibly empty list
\* and find_first() completes and returns a result or None: neither raises.
C11_NeverRaises == Queried => ~last.raised

----------------------------------------------------------------------------
(* Properties of the result projections.                                   *)

\* The call recorded in `last`, made again with rettype rt
LastFindAs(rt) ==
    find(children, last.c, last.m, last.maxcount, last.maxdepth, Arg(rt))

\* The results N, P and PC of one find() under the rettypes "node", "path"
\* and "parentchild" describe the same matches
SameMatches(N, P, PC) ==
    /\ Len(P) = Len(N) /\ Len(PC) = Len(N)
    /\ \A i \in 1..Len(N) :
          /\ N[i] = P[i][Len(P[i])]
          /\ Len(PC[i]) = 2 /\ N[i] = PC[i][2]
          /\ P[i][1] = last.c
          /\ \A j \in 1..(Len(P[i]) - 1) :
                IsChild(children[P[i][j]], P[i][j + 1])
          /\ IF Len(P[i]) = 1 THEN PC[i][1] = NoneNode
             ELSE /\ PC[i][1] = P[i][Len(P[i]) - 1]
                  /\ IsChild(children[PC[i][1]], PC[i][2])
    /\ ProperTree(children) =>
          \A i \in 1..Len(N) : PC[i][1] = NoneNode <=> N[i] = last.c

\* C12: for the same tree, matcher and arguments, find() returns as many
\* results under each rettype; the i-th "node" result is the last element of
\* the i-th "path" result and the second element of the i-th "parentchild"
\* result; each path starts at the query root and every element is a direct
\* child of its predecessor; each parentchild result is [parent, matched]
\* with matched a direct child of parent, or [None, matched] exactly when the
\* match is the query root.
C12_ProjectionsAgree ==
    (last.op = "find" /\ ~last.raised) =>
        /\ last.ret = LastFindAs(OrString(last.rettype, last.m.rettype)).ret
        /\ SameMatches(LastFindAs("node").ret, LastFindAs("path").ret,
                       LastFindAs("parentchild").ret)

C12_Witness ==
    /\ last.op = "find" /\ ~last.raised
    /\ ProperTree(children)
    /\ last.c = "rec"
    /\ last.rettype = Arg("parentchild")
    /\ last.ret = <<<<"opts", "o1">>>>
    /\ LastFindAs("path").ret = <<<<"rec", "opts", "o1">>>>
    /\ LastFindAs("node").ret = <<"o1">>

----------------------------------------------------------------------------
(* Properties of bulk removal.                                             *)

\* C13: passing the result list of a "parentchild" find() to
\* remove_child_nodes completes without raising and leaves every matched
\* child that had a parent absent from that parent's child list, also when
\* one of the results is the query root itself (parent None).  Stated of
\* proper trees.
C13_SafeBulkRemoval ==
    (/\ last.op = "remove_child_nodes"
     /\ ~last.found.raised
     /\ ProperTree(last.before)) =>
        /\ ~last.raised
        /\ \A i \in 1..Len(last.found.ret) :
              LET pair == last.found.ret[i]
              IN pair[1] # NoneNode => ~IsChild(children[pair[1]], pair[2])

\* s begins with the text p
HasPrefix(s, p) == Len(s) >= Len(p) /\ SubSeq(s, 1, Len(p)) = p

\* Some line of text t begins with p
HasLineStarting(t, p) ==
    \E i \in 1..Len(t) :
        (i = 1 \/ t[i - 1] = "\n") /\ HasPrefix(SubSeq(t, i, Len(t)), p)

\* The rendered line of each child
LinesOf(kids) == [i \in 1..Len(kids) |-> LineLeaf_render(kids[i])]

\* The positions of the lines that begin with "/old"
OldLines(kids) == {i \in 1..Len(kids) : HasPrefix(LinesOf(kids)[i], Old)}

\* C14: on a tree with one line starting with "/old", the leaf of value
\* "/old": taking the "parentchild" find_first result for the leaf whose
\* value equals "/old" and passing it to remove_child_nodes completes and
\* yields a tree whose rendered text has no line starting with "/old",
\* while every other line keeps its text and relative order.
C14_RemoveOld ==
    (/\ last.op = "remove_old"
     /\ Cardinality(OldLines(last.before)) = 1
     /\ \A i \in OldLines(last.before) : last.before[i].value = Old) =>
        /\ ~last.raised
        /\ rendered # None
        /\ ~HasLineStarting(rendered, Old)
        /\ \A i \in OldLines(last.before) :
              LinesOf(root) = Without(LinesOf(last.before), i)
        /\ rendered = Join(<<"\n">>, LinesOf(root))

----------------------------------------------------------------------------
(* Properties of the composite matchers.                                   *)

\* The recorded call used a ChildOfMatcher or DescendantOfMatcher, on a
\* proper tree
AncestorMatcherUsed(op) ==
    /\ last.op = op
    /\ last.m.kind \in {"ChildOfMatcher", "DescendantOfMatcher"}
    /\ ProperTree(children)

\* A submatcher whose match() raises on no node
NeverRaises(sub) == sub.kind \in {"NodeMatcher", "TypeMatcher"}

\* sub matches the node k steps up the path, evaluated with the path to it
AncestorSatisfies(nodepath, sub, k) ==
    /\ Len(nodepath) > k
    /\ Truthy(match(children, sub, nodepath[Len(nodepath) - k],
                    SubSeq(nodepath, 1, Len(nodepath) - k)))

\* C15: ChildOfMatcher(sub) and DescendantOfMatcher(sub, depth=k) match a
\* node whose path has more than k nodes exactly when sub matches the
\* ancestor k steps up that path, and find() with such a matcher completes
\* and returns the nodes whose k-th ancestor satisfies sub.  Stated for
\* submatchers that raise on no node.
C15_AncestorMatch ==
    /\ (/\ AncestorMatcherUsed("match")
        /\ NeverRaises(last.m.arg.matcher)
        /\ Len(last.nodepath) > last.m.arg.depth) =>
           /\ last.ret # "Raise"
           /\ Truthy(last.ret) <=>
                 AncestorSatisfies(last.nodepath, last.m.arg.matcher,
                                   last.m.arg.depth)
    /\ (/\ AncestorMatcherUsed("find")
        /\ NeverRaises(last.m.arg.matcher)) =>
           LET paths == walkpath(children, last.c, <<>>, last.m.maxdepth, TRUE)
               hits == SelectSeq(paths, LAMBDA np :
                          AncestorSatisfies(np, last.m.arg.matcher,
                                            last.m.arg.depth))
           IN /\ ~last.raised
              /\ last.ret = [i \in 1..Len(hits) |-> hits[i][Len(hits[i])]]

\* C16: when the supplied path is too short to have an ancestor depth steps
\* up, DescendantOfMatcher.match and ChildOfMatcher.match return False, not
\* None.
C16_ShortPathFalse ==
    (/\ AncestorMatcherUsed("match")
     /\ Len(last.nodepath) <= last.m.arg.depth) => last.ret = "False"

\* C17: ParentOfMatcher(sub) matches a node exactly when sub matches at
\* least one of its direct children, each evaluated with the path extended
\* by that child; leaves, containers with no satisfying direct child and
\* nodes whose only satisfying descendants are deeper do not match.
C17_ParentOf ==
    (/\ last.op = "match"
     /\ last.m.kind = "ParentOfMatcher"
     /\ ProperTree(children)) =>
        (Truthy(last.ret) <=>
            /\ last.node \in Containers
            /\ \E i \in 1..Len(children[last.node]) :
                  Truthy(match(children, last.m.arg.matcher,
                               children[last.node][i],
                               last.nodepath \o <<children[last.node][i]>>)))

----------------------------------------------------------------------------
(* Properties of the feed.                                                 *)

\* C18: repeated popline() calls on a feed over text T return T's lines in
\* order, each with its line terminator (the final line possibly without
\* one), so that what was returned, followed by what is still unread, is T;
\* EOF is returned only after all of T was returned, and then on every
\* later call; a blank line is returned as its terminator and never as EOF.
C18_PoplineSequence ==
    last.op = "popline" =>
        LET lines == SplitLines(text)
            out == last.out
            got == SelectSeq(out, LAMBDA l : l # EOF)
            unread == (IF BufFalsy(feed.buf) THEN <<>> ELSE feed.buf) \o feed.f
        IN /\ Flatten(lines) = text
           /\ \A i \in 1..Len(out) :
                 out[i] = IF i <= Len(lines) THEN lines[i] ELSE EOF
           /\ Flatten(got) \o unread = text
           /\ \A i \in 1..Len(out) :
                 /\ out[i] # <<>>
                 /\ out[i] = EOF =>
                       /\ Flatten(SelectSeq(SubSeq(out, 1, i - 1),
                                            LAMBDA l : l # EOF)) = text
                       /\ \A j \in i..Len(out) : out[j] = EOF

C18_Witness ==
    /\ last.op = "popline"
    /\ text = <<"a", "\n", "\n", "a">>
    /\ last.out = <<<<"a", "\n">>, <<"\n">>, <<"a">>, EOF, EOF>>

----------------------------------------------------------------------------
(* Properties of loading.                                                  *)

\* C19: when load() fails with ParsingError, the error reaches the caller
\* and no tree built from the failed input is stored, not even a partial
\* one: the editor's root is what it was before the call.  While parse()
\* runs the editor's root is unchanged as well.
C19_FailedLoadKeepsRoot ==
    last.op = "load" =>
        /\ pc = "raised" =>
              /\ last.error = "ParsingError"
              /\ last.root = last.before
        /\ pc \in {"new", "parse", "sd_loop"} =>
              /\ last.error = "None"
              /\ last.root = last.before

C19_Witness ==
    /\ last.op = "load"
    /\ pc = "raised"
    /\ last.error = "ParsingError"
    /\ Len(root) >= 1
    /\ last.before # NoRoot
    /\ last.root = last.before

----------------------------------------------------------------------------
(* Properties of the matcher parameters.                                   *)

\* C20: a matcher takes maxcount, maxdepth and rettype at construction, the
\* defaults being no limit (-1), 6 and "node", and find() called without
\* the corresponding argument uses the matcher's value: constructed with
\* maxdepth=d it returns no match whose path has more than d+1 nodes,
\* constructed with maxcount=k no more than k results, and constructed with
\* rettype the results of that projection.  Stated of proper trees.
C20_ConstructedParameters ==
    (last.op = "find" /\ ~last.raised /\ ProperTree(children)) =>
        LET paths == LastFindAs("path").ret
        IN /\ last.kw.maxcount = NoArg => last.m.maxcount = -1
           /\ last.kw.maxdepth = NoArg => last.m.maxdepth = 6
           /\ last.kw.rettype = NoArg => last.m.rettype = "node"
           /\ last.kw.maxdepth # NoArg =>
                 \A i \in 1..Len(paths) : Len(paths[i]) <= last.kw.maxdepth[1] + 1
           /\ last.kw.maxcount # NoArg => Len(last.ret) <= last.kw.maxcount[1]
           /\ last.ret = LastFindAs(Given(last.kw.rettype, "node")).ret

----------------------------------------------------------------------------
(* Properties of the grammar parsers.                                      *)

\* The input lines that a systemd tree stands for, in tree order: a comment
\* or blank leaf is its line, a section its "[name]" header followed by the
\* lines of its settings, a setting "name=value"
RECURSIVE SdLines(_)
SdLines(kids) ==
    IF kids = <<>> THEN <<>>
    ELSE LET n == Head(kids)
             own == CASE n.type = "SectionNode" ->
                            <<<<"[">> \o n.kids[1].value \o <<"]">>>>
                                \o (IF Len(n.kids) > 1 THEN SdLines(n.kids[2].kids)
                                    ELSE <<>>)
                      [] n.type = "SettingNode" ->
                            <<n.kids[1].value \o <<"=">> \o n.kids[2].value>>
                      [] OTHER -> <<n.value>>
         IN own \o SdLines(Tail(kids))

\* C21: parse() consumes the entire input: for a grammar parser as the
\* Editor creates it (constructed over the text with default priming, then
\* parse() called once), every input line, the first included, is
\* represented by a node of the returned tree, in input order; no line is
\* skipped between construction and parse().  Stated of the systemd grammar.
C21_ParseConsumesAll ==
    (last.op = "load" /\ pc = "loaded") =>
        LET ls == SplitLines(text)
        IN SdLines(root) = [i \in 1..Len(ls) |-> Strip(ls[i])]

----------------------------------------------------------------------------
(* Adding a record by text (os/exports.py):                                *)
(* ExportsFileEditor.add_record_by_text(line) on an editor whose root      *)
(* holds the records of an earlier load.  `root` is the child list of the  *)
(* editor's root, `text` the argument of the call.                         *)

MaxRecordLines == 2

\* The position of the first whitespace character of s from i on, 0 if none
RECURSIVE SpaceFrom(_, _)
SpaceFrom(s, i) ==
    IF i > Len(s) THEN 0
    ELSE IF IsSpace(s[i]) THEN i
    ELSE SpaceFrom(s, i + 1)

\* The fields of a line already stripped on the left, split at position i
split_at(t, i) ==
    IF t = <<>> THEN <<>>
    ELSE IF i = 0 THEN <<t>>
    ELSE IF LStrip(SubSeq(t, i + 1, Len(t))) = <<>> THEN <<SubSeq(t, 1, i - 1)>>
    ELSE <<SubSeq(t, 1, i - 1), LStrip(SubSeq(t, i + 1, Len(t)))>>

\* str.split(None, 1): the first field and the rest, the rest missing when
\* nothing but whitespace follows the first field
SplitOnce(s) == split_at(LStrip(s), SpaceFrom(LStrip(s), 1))

\* str.split(): the whitespace-separated fields
RECURSIVE SplitFields(_)
fields_of(p) ==
    IF Len(p) < 2 THEN p ELSE <<p[1]>> \o SplitFields(p[2])

SplitFields(s) == fields_of(SplitOnce(s))

\* str.split(c) for a one-character c
RECURSIVE SplitOn(_, _)
split_on_at(s, c, i) ==
    IF i = 0 THEN <<s>>
    ELSE <<SubSeq(s, 1, i - 1)>> \o SplitOn(SubSeq(s, i + 1, Len(s)), c)

SplitOn(s, c) == split_on_at(s, c, StrIndex(s, c))

\* ClientOptionsNode([ClientNode(client), OptionsNode of the OptionNodes])
client_options_node(client, opts) ==
    SdNode("ClientOptionsNode", <<>>,
       <<SdNode("ClientNode", client, <<>>),
         SdNode("OptionsNode", <<>>,
            [k \in 1..Len(opts) |-> SdNode("OptionNode", opts[k], <<>>)])>>)

\* The body of the loop of parse_exportsrecord() for one field
client_options(co) ==
    IF StrIndex(co, "(") > 0 /\ EndsWith(co, ")")
    THEN client_options_node(
            SubSeq(co, 1, StrIndex(co, "(") - 1),
            SplitOn(SubSeq(co, StrIndex(co, "(") + 1, Len(co) - 1), ","))
    ELSE client_options_node(co, <<>>)

\* What parse_exportsrecord() returns after its call of next()
exportsrecord_node(r, path, cos) ==
    [fd |-> r.fd, line |-> r.line, error |-> FALSE,
     node |-> SdNode("ExportsRecordNode", <<>>,
                 <<SdNode("PathNode", path, <<>>),
                   SdNode("ClientsOptionsNode", <<>>,
                      [k \in 1..Len(cos) |-> client_options(cos[k])])>>)]

\* parse_exportsrecord() for the fields that split(None, 1) gave: fewer than
\* two cannot be unpacked into path and clientsoptions
exportsrecord_of(fd, l, fields) ==
    IF Len(fields) # 2
    THEN [fd |-> fd, line |-> l, error |-> TRUE,
          node |-> SdNode("None", <<>>, <<>>)]
    ELSE exportsrecord_node(LineParser_next(fd), fields[1], SplitFields(fields[2]))

\* parse_exportsrecord(): [fd, line, node, error].  EOF has no split(); the
\* bare `except` turns every exception into ParsingError("missing fields").
parse_exportsrecord(fd, l) ==
    IF l = EOF
    THEN [fd |-> fd, line |-> l, error |-> TRUE,
          node |-> SdNode("None", <<>>, <<>>)]
    ELSE exportsrecord_of(fd, l, SplitOnce(l))

RecordLines ==
    {<<"/", "a", " ", "h">>, <<"/", "b", " ", "h", "(", "r", ",", "w", ")">>,
     <<"/", "a">>, <<"#", "c">>}

\* The arguments of add_record_by_text: one line, or up to MaxRecordLines
\* lines each with its line terminator
RecordTexts ==
    RecordLines \cup
    UNION {{Flatten([i \in 1..n |-> ls[i] \o <<"\n">>]) :
                ls \in [1..n -> RecordLines]} : n \in 1..MaxRecordLines}

\* The records the editor's root holds before the call
PriorRecords ==
    {<<>>, <<parse_exportsrecord(FeedInit(<<>>), <<"/", "a", " ", "h">>).node>>}

InitAddRecord ==
    /\ text \in RecordTexts
    /\ feed = FeedInit(text)
    /\ line = None
    /\ root \in PriorRecords
    /\ rendered = None
    /\ pc = "new"
    /\ children = [c \in Containers |-> <<>>]
    /\ last = [op |-> "add_record_by_text", before |-> root, raised |-> FALSE]

\* p.nextstripline(), on the parser that get_parser(line) constructed
RecordNextStripLine ==
    /\ pc = "parse"
    /\ LET r == nextstripline(feed)
       IN /\ feed' = r.fd
          /\ line' = r.line
    /\ pc' = "record"
    /\ UNCHANGED <<text, root, rendered, children, last>>

\* self.root.add(p.parse_exportsrecord()) after parse_exportsrecord gave r
RecordParsed(r) ==
    /\ feed' = r.fd
    /\ line' = r.line
    /\ root' = IF r.error THEN root ELSE add(root, r.node)
    /\ pc' = IF r.error THEN "raised" ELSE "added"
    /\ last' = [last EXCEPT !.raised = r.error]

AddRecord ==
    /\ pc = "record"
    /\ RecordParsed(parse_exportsrecord(feed, line))
    /\ UNCHANGED <<text, rendered, children>>

NextAddRecord ==
    \/ Construct
    \/ RecordNextStripLine
    \/ AddRecord

SpecAddRecord == InitAddRecord /\ [][NextAddRecord]_vars

\* A text of one record line: a path followed by at least one client
\* specification, with or without its line terminator
WellFormedRecordLine(t) ==
    /\ Len(SplitLines(t)) = 1
    /\ Len(SplitOnce(Strip(t))) = 2
    /\ ~StartsWith(Strip(t), "#")

\* C22: add_record_by_text(line), for a well-formed record line (a path
\* followed by at least one client specification), completes without error
\* and appends exactly one record to the root whose path leaf holds the
\* line's first field, leaving all existing children unchanged.
C22_AddRecordByText ==
    (/\ last.op = "add_record_by_text"
     /\ pc \in {"added", "raised"}
     /\ WellFormedRecordLine(text)) =>
        /\ pc = "added" /\ ~last.raised
        /\ Len(root) = Len(last.before) + 1
        /\ SubSeq(root, 1, Len(last.before)) = last.before
        /\ root[Len(root)].type = "ExportsRecordNode"
        /\ root[Len(root)].kids[1] =
              SdNode("PathNode", SplitOnce(Strip(text))[1], <<>>)

----------------------------------------------------------------------------
(* Properties of the cursor.                                               *)

\* What a feed has not delivered yet: its buffer, then the rest of its source
Unread(fd) == (IF BufFalsy(fd.buf) THEN <<>> ELSE fd.buf) \o fd.f

\* The next unread character, or EOF once no characters remain
NextChar(fd) == IF Unread(fd) = <<>> THEN EOF ELSE <<Unread(fd)[1]>>

\* C23: in every cursor state, peekchar() consumes nothing and returns the
\* same value that the immediately following popchar() returns: the next
\* unread character while input remains, and the end-of-input marker (not
\* an empty string) once no characters remain.
C23_PeekIsNextPop ==
    /\ last.op = "peekchar" =>
          /\ Unread(feed) = Unread(last.before)
          /\ last.ret = NextChar(last.before)
    /\ (last.op = "popchar" /\ last.peeked # NoPeek) => last.ret = last.peeked

\* The values that are not the end-of-input marker, in order
Delivered(out) == SelectSeq(out, LAMBDA v : v # EOF)

\* C28: for every interleaving of popchar() and popline() calls on a cursor
\* over text T, the concatenation of all non-end-of-input return values is
\* a prefix of T, what is still unread being the rest of T (each character
\* delivered exactly once, in order); the end-of-input marker is returned
\* only when all of T has been delivered; once it has been returned every
\* later popchar() and popline() also returns it; and no call returns an
\* empty string.
C28_PopInterleaving ==
    pc = "cursor" =>
        /\ Flatten(Delivered(last.out)) \o Unread(feed) = text
        /\ \A i \in 1..Len(last.out) :
              /\ last.out[i] # <<>>
              /\ last.out[i] = EOF =>
                    /\ Flatten(Delivered(SubSeq(last.out, 1, i - 1))) = text
                    /\ \A j \in i..Len(last.out) : last.out[j] = EOF

\* popchar() "a", popline() "#\n" (the rest of the line), a pop of the last
\* "a", then EOF from two more pops, the last of them popchar()
C28_Witness ==
    /\ pc = "cursor"
    /\ last.op = "popchar"
    /\ text = <<"a", "#", "\n", "a">>
    /\ last.out = <<<<"a">>, <<"#", "\n">>, <<"a">>, EOF, EOF>>

----------------------------------------------------------------------------
(* Repeating a call: a run builds a structure with add(), calls remove()   *)
(* or upsert() on a container and then makes the same call, with the same  *)
(* arguments, once more.  `last.once` keeps the child lists as the first   *)
(* of the two calls left them.                                             *)

\* The call recorded in `last`, with what the structure was after it
Again == [op |-> last.op, c |-> last.c, node |-> last.node, rel |-> last.rel,
          before |-> last.before, once |-> children]

RemoveAgain ==
    /\ pc = "called" /\ last.op = "remove"
    /\ children' = With(last.c, remove(children[last.c], last.node))
    /\ last' = Again
    /\ pc' = "again"
    /\ UNCHANGED <<text, feed, line, root, rendered>>

UpsertAgain ==
    /\ pc = "called" /\ last.op = "upsert"
    /\ children' = With(last.c, upsert(children[last.c], last.rel, last.node))
    /\ last' = Again
    /\ pc' = "again"
    /\ UNCHANGED <<text, feed, line, root, rendered>>

BuildTwice == Build(MaxSlots)

NextTwice ==
    \/ BuildTwice
    \/ Remove
    \/ Upsert
    \/ RemoveAgain
    \/ UpsertAgain

SpecTwice == InitTree /\ [][NextTwice]_vars

\* C24: the tolerant mutation primitives are idempotent: applying remove(n)
\* twice in a row, or upsert(old, new) twice in a row, leaves the same child
\* list as applying it once.  Stated of structures that were proper trees
\* before the calls.
C24_Idempotent ==
    (pc = "again" /\ ProperTree(last.before)) => children = last.once

\* C25: exclusive ownership: after any sequence of add, insert_before,
\* insert_after, upsert and remove calls, every node is held by at most one
\* container and occurs at most once in that container's child list, and no
\* container is its own descendant (the structure stays a tree).
C25_ExclusiveOwnership == ProperTree(children)

----------------------------------------------------------------------------
(* Reading a tree twice: a run builds a structure with add(), calls        *)
(* render(), render_json() or find() on it and then makes the same call    *)
(* once more.  `last.first` is what the first call returned,               *)
(* `last.repeated` what the second returned.                               *)

RenderFirst ==
    /\ Called
    /\ \E n \in Nodes :
          last' = [op |-> "render", c |-> n, before |-> children,
                   first |-> render(children, n)]
    /\ UNCHANGED children

RenderJsonFirst ==
    /\ Called
    /\ \E n \in Nodes :
          last' = [op |-> "render_json", c |-> n, before |-> children,
                   first |-> render_json(children, n)]
    /\ UNCHANGED children

FindFirstTime ==
    /\ Called
    /\ \E c \in Containers, p \in MatcherSpecs :
          last' = [op |-> "find", c |-> c, m |-> MatcherOf(p),
                   before |-> children,
                   first |-> find(children, c, MatcherOf(p), NoArg, NoArg, NoArg)]
    /\ UNCHANGED children

\* The second call, on the tree as the first left it
Repeated(r) ==
    /\ pc = "called"
    /\ pc' = "repeated"
    /\ last' = [op |-> last.op, c |-> last.c, before |-> last.before,
                first |-> last.first, repeated |-> r]
    /\ UNCHANGED <<children, text, feed, line, root, rendered>>

RenderRepeated ==
    /\ pc = "called" /\ last.op = "render"
    /\ Repeated(render(children, last.c))

RenderJsonRepeated ==
    /\ pc = "called" /\ last.op = "render_json"
    /\ Repeated(render_json(children, last.c))

FindRepeated ==
    /\ pc = "called" /\ last.op = "find"
    /\ Repeated(find(children, last.c, last.m, NoArg, NoArg, NoArg))

BuildRead == Build(MaxFindSlots)

NextRead ==
    \/ BuildRead
    \/ RenderFirst
    \/ RenderJsonFirst
    \/ FindFirstTime
    \/ RenderRepeated
    \/ RenderJsonRepeated
    \/ FindRepeated

SpecRead == InitTree /\ [][NextRead]_vars

\* Two results of the same call are equal
SameResult(op, a, b) ==
    CASE op = "render" -> a = b
      [] op = "render_json" ->
            a.raised = b.raised /\ (~a.raised => a.json = b.json)
      [] op = "find" -> a.raised = b.raised /\ (~a.raised => a.ret = b.ret)

----------------------------------------------------------------------------
(* The order of a search: a run builds a structure with add(), then calls  *)
(* find() with a matcher for the leaves, or for the containers that hold a *)
(* leaf, constructed with or without a count limit.  `last.evaluated`      *)
(* keeps the nodes that were passed to match(), in order.                  *)

\* The calls: at most one of the matcher's maxcount and find()'s maxdepth
\* is given
OrderArgs ==
    {<<mc, NoArg>> : mc \in CountArgs} \cup {<<NoArg, md>> : md \in DepthArgs}

\* TypeMatcher(StringNode, maxcount=mc) and
\* ParentOfMatcher(TypeMatcher(StringNode), maxcount=mc)
OrderMatchers(mc) ==
    {Matcher("TypeMatcher", "StringNode", mc, NoArg),
     ParentOfMatcher(Matcher("TypeMatcher", "StringNode", NoArg, NoArg),
                     mc, NoArg)}

FindOrdered ==
    /\ Called
    /\ \E c \in Containers, a \in OrderArgs :
          \E m \in OrderMatchers(a[1]) :
             LET r == find(children, c, m, NoArg, a[2], NoArg)
                 paths == walkpath(children, c, <<>>,
                                   OrNumber(a[2], m.maxdepth), TRUE)
             IN last' = [op |-> "find", c |-> c, m |-> m, maxcount |-> NoArg,
                         maxdepth |-> a[2], rettype |-> NoArg,
                         before |-> children, raised |-> r.raised, ret |-> r.ret,
                         evaluated |-> find_evaluated(children, m, paths)]
    /\ UNCHANGED children

BuildOrder == Build(MaxSlots)

NextOrder ==
    \/ BuildOrder
    \/ FindOrdered

SpecOrder == InitTree /\ [][NextOrder]_vars

\* Node x and everything below it
Below(ch, x) == Within(ch, x, Cardinality(Nodes))

\* Pre-order, depth-first: no node of N comes before a node of N that it is
\* below, and a node under a later sibling never comes before a node under
\* an earlier sibling
PreOrdered(ch, N) ==
    /\ \A i, j \in 1..Len(N) : i < j => N[i] \notin Below(ch, N[j])
    /\ \A x \in Containers : \A p, q \in 1..Len(ch[x]) :
          p < q =>
             \A i, j \in 1..Len(N) :
                (N[i] \in Below(ch, ch[x][q]) /\ N[j] \in Below(ch, ch[x][p]))
                    => j < i

\* How often match() was called on node n
Evaluations(n) ==
    Cardinality({i \in 1..Len(last.evaluated) : last.evaluated[i] = n})

\* The nodes within the depth limit that find() was called with
WithinLimit ==
    Within(children, last.c, Given(last.maxdepth, last.m.maxdepth))

\* A find() call on a proper tree that returned its list
Searched == last.op = "find" /\ ~last.raised /\ ProperTree(children)

\* The loop of find() ended at its `break`
EndedByCount == last.m.maxcount >= 1 /\ Len(last.ret) = last.m.maxcount

\* C27 as stated: find() returns its results in pre-order, depth-first: a
\* matching container appears before any matching node of its subtree,
\* matches under an earlier sibling appear before matches under a later
\* sibling, and each node within the depth limit is evaluated exactly once.
C27_EveryNodeEvaluatedOnce ==
    Searched =>
        /\ PreOrdered(children, last.ret)
        /\ \A n \in WithinLimit : Evaluations(n) = 1

\* C27, amended: find() returns its results in pre-order, depth-first, the
\* nodes are evaluated in that order, and each node within the depth limit
\* is evaluated at most once: exactly once when the search runs to its end,
\* and not after the match that reached the matcher's count limit when the
\* search ends there.
C27_PreOrder ==
    Searched =>
        /\ PreOrdered(children, last.ret)
        /\ PreOrdered(children, last.evaluated)
        /\ \A n \in Nodes : Evaluations(n) <= 1
        /\ \A i \in 1..Len(last.ret) : Evaluations(last.ret[i]) = 1
        /\ ~EndedByCount => \A n \in WithinLimit : Evaluations(n) = 1
        /\ EndedByCount =>
              last.evaluated[Len(last.evaluated)] = last.ret[Len(last.ret)]

\* The record of a leaf and a container of one leaf, searched for the
\* containers that hold a leaf: the record, then the container below it
C27_Witness ==
    /\ Searched
    /\ last.c = "rec"
    /\ children["rec"] = <<"p", "opts">>
    /\ children["opts"] = <<"o1">>
    /\ last.m.kind = "ParentOfMatcher"
    /\ last.ret = <<"rec", "opts">>
    /\ last.evaluated = <<"rec", "p", "opts", "o1">>

----------------------------------------------------------------------------
(* Walking a tree: a run builds a structure with add(), then calls         *)
(* walk(maxdepth, topdown) on a node; `last.paths` is what                 *)
(* walkpath(maxdepth=maxdepth, topdown=topdown) yields on the same node.   *)

WalkCall ==
    /\ Called
    /\ \E n \in Nodes, d \in 0..MaxDepth, topdown \in BOOLEAN :
          LET r == walk(children, n, d, topdown)
          IN last' = [op |-> "walk", c |-> n, maxdepth |-> d,
                      topdown |-> topdown, before |-> children,
                      raised |-> r.raised, ret |-> r.nodes,
                      paths |-> walkpath(children, n, <<>>, d, topdown)]
    /\ UNCHANGED children

BuildWalk == Build(MaxFindSlots)

NextWalk ==
    \/ BuildWalk
    \/ WalkCall

SpecWalk == InitTree /\ [][NextWalk]_vars

\* C29: walk() and walkpath() agree: for the same container, maxdepth and
\* traversal direction, the sequence of nodes yielded by
\* walk(maxdepth, topdown) equals the sequence of last elements of the
\* paths yielded by walkpath(maxdepth=maxdepth, topdown=topdown); in
\* particular walk() yields no node deeper than maxdepth below the start
\* node.  Stated of proper trees.
C29_WalkAgreesWithWalkpath ==
    (last.op = "walk" /\ ProperTree(children)) =>
        /\ ~last.raised
        /\ last.ret = [i \in 1..Len(last.paths) |->
                          last.paths[i][Len(last.paths[i])]]
        /\ \A i \in 1..Len(last.ret) :
              last.ret[i] \in Within(children, last.c, last.maxdepth)

----------------------------------------------------------------------------
(* Termination of the default line grammar.                                *)

\* The lines parse() has still to handle: the current line, unless it is
\* EOF, and the lines the cursor has not delivered
Pending ==
    Len(SplitLines(Unread(feed))) + (IF line = EOF THEN 0 ELSE 1)

\* One iteration of the loop of parse()
Iteration == pc = "parse" /\ pc' = "parse"

\* C30: the default LineParser.parse() terminates on every finite input:
\* each loop iteration consumes exactly one line from the cursor and adds
\* exactly one child, the current line eventually becomes the end-of-input
\* marker, and parse() then returns without reading further.
C30_ParseTerminates ==
    /\ [][Iteration =>
            /\ Len(root') = Len(root) + 1
            /\ Pending' = Pending - 1
            /\ feed' = popline(feed).fd]_vars
    /\ [][(pc = "parse" /\ pc' = "parsed") =>
            (line = EOF /\ feed' = feed /\ root' = root)]_vars
    /\ (pc = "parse") ~> (line = EOF)
    /\ (pc = "parse") ~> (pc = "parsed")

\* A text of three lines, the last without terminator, parsed to its end
C30_Witness ==
    /\ pc = "parsed"
    /\ text = <<"#", "\n", "a">>
    /\ Len(root) = 2
    /\ line = EOF
    /\ Unread(feed) = <<>>

====
